---------------------------- MODULE Spec2Model ----------------------------
(***************************************************************************)
(* State-machine model of the four pipelines of the repository:            *)
(*   Learning_Loop.py            feedback loop        (SpecLearn)          *)
(*   document_ingestion.py       chunk/extract/relate (SpecDoc)            *)
(*   knowledge_graph_builder.py  build/analyze        (SpecKG)             *)
(*   graph_rag.py                retrieve/generate    (SpecRAG)            *)
(* Every pipeline has its own variables; a specification of one pipeline   *)
(* leaves the variables of the others at their construction values.        *)
(***************************************************************************)
EXTENDS Integers, Sequences, FiniteSets, TLC

VARIABLES
  \* Learning_Loop.py
  feedback,      \* LearningState.feedback: the records iterated by process_feedback
  kg_updates,    \* the arguments of the calls kg.update_with_feedback(fb), in order
  learn_pc,      \* position of the learning workflow: "process" | "done"
  \* document_ingestion.py
  raw_text,      \* DocumentState.raw_text, a sequence of tokens
  chunks,        \* DocumentState.chunks
  entities,      \* DocumentState.entities: category -> list of surface strings
  relations,     \* DocumentState.relations: list of triples
  doc_pc,        \* position of the document workflow
  \* knowledge_graph_builder.py
  kg_entities,   \* KGState.entities: entity name -> properties
  kg_relations,  \* KGState.relations: list of triples
  graph,         \* KGState.graph, a networkx.Graph
  metrics,       \* KGState.metrics
  kg_pc,         \* position of the graph workflow
  kg_given,      \* the entities, relations and graph the state was constructed with
  built,         \* the graph as it was when each construct_graph call returned
  \* graph_rag.py
  kg,            \* the module-level handle kg: TRUE when set, FALSE when None
  llm,           \* the module-level handle llm: TRUE when set, FALSE when None
  messages,      \* the message list the nodes work on
  rag_mode,      \* "workflow": run_workflow(query); "direct": generate_response(messages)
  rag_pc,        \* position of the retrieval workflow
  rag_trace,     \* the nodes executed so far, in order
  kg_queries,    \* the arguments of the calls kg.query(...)
  llm_calls,     \* the arguments of the calls llm.generate(...)
  answer         \* the AIMessage returned to the caller, NoneValue before that

learn_vars == <<feedback, kg_updates, learn_pc>>
doc_vars   == <<raw_text, chunks, entities, relations, doc_pc>>
kg_vars    == <<kg_entities, kg_relations, graph, metrics, kg_pc, kg_given, built>>
rag_vars   == <<kg, llm, messages, rag_mode, rag_pc, rag_trace, kg_queries,
               llm_calls, answer>>
vars       == <<learn_vars, doc_vars, kg_vars, rag_vars>>

-----------------------------------------------------------------------------
(* Bounds *)
MaxFeedback == 3   \* longest feedback list
MaxText     == 4   \* longest raw text, in tokens
MaxOverlap  == 1   \* most tokens a chunk repeats from the end of its predecessor
MaxRels     == 2   \* longest relation list
MaxBuilds   == 2   \* most construct_graph calls on one state
MaxMsgs     == 3   \* longest message list handed to generate_response

-----------------------------------------------------------------------------
(* Learning_Loop.py *)

\* Values the 'correct' field of a feedback record can hold.  Python's
\* `is False` is an identity test: only the object False passes it, while
\* None and 0 (both falsy) and True do not.
CorrectValues == {"True", "False", "None", "0"}
Corrections   == {"c1", "c2"}
FeedbackRecords == [correct : CorrectValues, correction : Corrections]

\* fb['correct'] is False      (Learning_Loop.py line 12)
IsFalsy(v) == v \in {"False", "None", "0"}
IsFalse(v) == v = "False"

\* the loop of process_feedback: walks the records in order and calls the
\* update hook for the flagged ones; `calls` is the call log so far
RECURSIVE FeedbackLoop(_, _)
FeedbackLoop(fbs, calls) ==
  IF fbs = <<>> THEN calls
  ELSE FeedbackLoop(Tail(fbs),
                    IF IsFalse(Head(fbs).correct)
                      THEN Append(calls, Head(fbs))
                      ELSE calls)

\* process_feedback  (Learning_Loop.py lines 9-14); returns the state unchanged
process_feedback ==
  /\ learn_pc = "process"
  /\ kg_updates' = FeedbackLoop(feedback, kg_updates)
  /\ learn_pc' = "done"
  /\ UNCHANGED feedback

Seqs(S, n) == UNION {[1..k -> S] : k \in 0..n}

InitLearnVars ==
  /\ feedback = <<>>
  /\ kg_updates = <<>>
  /\ learn_pc = "idle"

InitDocVars ==
  /\ raw_text = <<>>
  /\ chunks = <<>>
  /\ entities = [k \in {} |-> <<>>]
  /\ relations = <<>>
  /\ doc_pc = "idle"

-----------------------------------------------------------------------------
(* document_ingestion.py *)

\* A text is a sequence of tokens: the three keywords the mock models look
\* for, a word that is no keyword, and a whitespace character.
Tokens == {"Apple Inc.", "Cupertino", "iPhone", "Apple", " "}
Texts  == Seqs(Tokens, MaxText)

\* `kw in text`
Contains(text, kw) == \E i \in 1..Len(text) : text[i] = kw

\* str.strip(): drops leading and trailing whitespace
RECURSIVE LStrip(_)
LStrip(s) == IF s # <<>> /\ Head(s) = " " THEN LStrip(Tail(s)) ELSE s
RECURSIVE RStrip(_)
RStrip(s) ==
  IF s # <<>> /\ s[Len(s)] = " " THEN RStrip(SubSeq(s, 1, Len(s) - 1)) ELSE s
Strip(s) == RStrip(LStrip(s))

\* text_splitter.split_text with the boundaries and the overlap it chose:
\* the text is divided after the positions in `cuts`, every piece is extended
\* backwards by `ov` tokens of its predecessor, stripped, and dropped when
\* nothing is left.  `from` is the first position not yet in a piece.
RECURSIVE Pieces(_, _, _, _)
Pieces(text, cuts, ov, from) ==
  IF from > Len(text) THEN <<>>
  ELSE LET ends  == {c \in cuts \cup {Len(text)} : c >= from}
           b     == CHOOSE c \in ends : \A d \in ends : c <= d
           start == IF from - ov < 1 THEN 1 ELSE from - ov
           piece == Strip(SubSeq(text, start, b))
           rest  == Pieces(text, cuts, ov, b + 1)
       IN IF piece = <<>> THEN rest ELSE <<piece>> \o rest

\* the results text_splitter.split_text(text) can return: the splitter is an
\* external library, so every choice of boundaries and overlap is allowed
split_text(text) ==
  { Pieces(text, cuts, ov, 1) :
      cuts \in SUBSET (1..(Len(text) - 1)), ov \in 0..MaxOverlap }

Categories == {"ORG", "GPE", "PRODUCT"}
EmptyDict  == [k \in {} |-> <<>>]

\* NERModel.extract
NERExtract(text) ==
  LET ents == [k \in Categories |->
                 IF k = "ORG" THEN
                   (IF Contains(text, "Apple Inc.") THEN <<"Apple Inc.">> ELSE <<>>)
                 ELSE IF k = "GPE" THEN
                   (IF Contains(text, "Cupertino")
                      THEN <<"American", "Cupertino", "California">> ELSE <<>>)
                 ELSE
                   (IF Contains(text, "iPhone")
                      THEN <<"iPhone", "iPad", "Mac", "Apple Watch">> ELSE <<>>)]
  IN [k \in {c \in Categories : ents[c] # <<>>} |-> ents[k]]

ManufacturesTriple ==
  [source |-> "Apple Inc.", target |-> "iPhone", relation |-> "manufactures"]
HeadquarteredTriple ==
  [source |-> "Apple Inc.", target |-> "Cupertino", relation |-> "headquartered_in"]

\* a variant that looks for the two keywords anywhere in the document
RECURSIVE relation_extractor_anywhere(_, _)
relation_extractor_anywhere(all, cs) ==
  IF cs = <<>> THEN <<>>
  ELSE (IF (\E i \in 1..Len(all) : Contains(all[i], "Apple Inc."))
           /\ (\E i \in 1..Len(all) : Contains(all[i], "iPhone"))
          THEN <<ManufacturesTriple>> ELSE <<>>)
       \o (IF Contains(Head(cs), "Apple Inc.") /\ Contains(Head(cs), "Cupertino")
            THEN <<HeadquarteredTriple>> ELSE <<>>)
       \o relation_extractor_anywhere(all, Tail(cs))
relation_extractor_doc(cs) == relation_extractor_anywhere(cs, cs)

\* relation_extractor
RECURSIVE relation_extractor(_)
relation_extractor(cs) ==
  IF cs = <<>> THEN <<>>
  ELSE (IF Contains(Head(cs), "Apple Inc.") /\ Contains(Head(cs), "iPhone")
          THEN <<ManufacturesTriple>> ELSE <<>>)
       \o (IF Contains(Head(cs), "Apple Inc.") /\ Contains(Head(cs), "Cupertino")
            THEN <<HeadquarteredTriple>> ELSE <<>>)
       \o relation_extractor(Tail(cs))

\* state.entities.setdefault(key, []).extend(values) for every key of `new`
Accumulate(ents, new) ==
  [k \in (DOMAIN ents) \cup (DOMAIN new) |->
     (IF k \in DOMAIN ents THEN ents[k] ELSE <<>>)
     \o (IF k \in DOMAIN new THEN new[k] ELSE <<>>)]

\* the loop of extract_entities
RECURSIVE ExtractLoop(_, _)
ExtractLoop(cs, ents) ==
  IF cs = <<>> THEN ents
  ELSE ExtractLoop(Tail(cs), Accumulate(ents, NERExtract(Head(cs))))

\* a chunk_document without the branch for blank text
chunk_document_noguard ==
  /\ doc_pc = "chunk"
  /\ chunks' \in split_text(raw_text)
  /\ doc_pc' = "extract_entities"
  /\ UNCHANGED <<raw_text, entities, relations>>

\* chunk_document
chunk_document ==
  /\ doc_pc = "chunk"
  /\ IF Strip(raw_text) # <<>>
       THEN chunks' \in split_text(raw_text)
       ELSE chunks' = << <<>> >>
  /\ doc_pc' = "extract_entities"
  /\ UNCHANGED <<raw_text, entities, relations>>

\* extract_entities
extract_entities ==
  /\ doc_pc = "extract_entities"
  /\ entities' = ExtractLoop(chunks, entities)
  /\ doc_pc' = "build_relations"
  /\ UNCHANGED <<raw_text, chunks, relations>>

\* build_relations
build_relations ==
  /\ doc_pc = "build_relations"
  /\ relations' = relation_extractor(chunks)
  /\ doc_pc' = "done"
  /\ UNCHANGED <<raw_text, chunks, entities>>

-----------------------------------------------------------------------------
(* knowledge_graph_builder.py *)

\* A property mapping is a set of <<key, value>> pairs with distinct keys.
\* A networkx.Graph is undirected and holds at most one edge per pair of
\* nodes: `node` maps a node to its properties, `edge` maps the set of the two
\* end points of an edge ({u} for a self-loop) to its "relation" attribute.
EmptyFn    == [x \in {} |-> {}]
EmptyGraph == [node |-> EmptyFn, edge |-> EmptyFn]

Names       == {"Apple Inc.", "iPhone"}
Labels      == {"manufactures", "sells"}
PropsValues == {{}, {<<"type", "ORG">>}}
EntityMaps  == UNION {[S -> PropsValues] : S \in SUBSET Names}
\* a triple with or without the optional 'relation' key
Triples     == [source : Names, target : Names, relation : Labels]
                 \cup [source : Names, target : Names]
\* graphs a caller can hand to KGState(graph=...)
StaleGraph  ==
  [node |-> [n \in {"Cupertino", "iPhone"} |-> {<<"type", "GPE">>}],
   edge |-> [e \in {{"Cupertino", "iPhone"}} |-> "located_in"]]
GivenGraphs == {EmptyGraph, StaleGraph}

\* dict.update
Update(old, new) == {p \in old : \A q \in new : q[1] # p[1]} \cup new

\* a clear that leaves the graph as it is
clear_keep(g) == g

\* Graph.clear()
clear(g) == EmptyGraph

\* Graph.add_node(n, **props)
add_node(g, n, props) ==
  [g EXCEPT !.node =
     [m \in (DOMAIN g.node) \cup {n} |->
        IF m = n
          THEN Update(IF n \in DOMAIN g.node THEN g.node[n] ELSE {}, props)
          ELSE g.node[m]]]

\* Graph.add_edge(u, v, relation=label): adds missing end points without
\* properties and sets the attribute of the one edge between u and v
add_edge(g, u, v, label) ==
  LET g1 == add_node(add_node(g, u, {}), v, {})
  IN [g1 EXCEPT !.edge =
        [e \in (DOMAIN g1.edge) \cup {{u, v}} |->
           IF e = {u, v} THEN label ELSE g1.edge[e]]]

\* rel.get('relation', 'related')
RelationOf(rel) ==
  IF "relation" \in DOMAIN rel THEN rel.relation ELSE "related"

\* for entity, props in state.entities.items(): state.graph.add_node(...)
RECURSIVE AddNodes(_, _, _)
AddNodes(g, ents, todo) ==
  IF todo = {} THEN g
  ELSE LET n == CHOOSE x \in todo : TRUE
       IN AddNodes(add_node(g, n, ents[n]), ents, todo \ {n})

\* for rel in state.relations: state.graph.add_edge(...)
RECURSIVE AddEdges(_, _)
AddEdges(g, rels) ==
  IF rels = <<>> THEN g
  ELSE AddEdges(add_edge(g, Head(rels).source, Head(rels).target,
                         RelationOf(Head(rels))),
                Tail(rels))

\* a construct_graph that takes the triples off the list as it adds them
construct_graph_consuming ==
  /\ kg_pc \in {"build", "analyze"}
  /\ Len(built) < MaxBuilds
  /\ graph' = AddEdges(AddNodes(clear(graph), kg_entities, DOMAIN kg_entities),
                       kg_relations)
  /\ kg_relations' = <<>>
  /\ built' = Append(built, graph')
  /\ kg_pc' = "analyze"
  /\ UNCHANGED <<kg_entities, metrics, kg_given>>

\* construct_graph
construct_graph ==
  /\ kg_pc \in {"build", "analyze"}
  /\ Len(built) < MaxBuilds
  /\ graph' = AddEdges(AddNodes(clear(graph), kg_entities, DOMAIN kg_entities),
                       kg_relations)
  /\ built' = Append(built, graph')
  /\ kg_pc' = "analyze"
  /\ UNCHANGED <<kg_entities, kg_relations, metrics, kg_given>>

\* G.degree(n): a self-loop counts twice
Degree(g, n) ==
  Cardinality({e \in DOMAIN g.edge : n \in e})
    + Cardinality({e \in DOMAIN g.edge : e = {n}})

\* networkx.degree_centrality: 1 for every node of a graph of at most one
\* node, else degree / (number of nodes - 1); a score is the fraction num/den
degree_centrality(g) ==
  LET N == Cardinality(DOMAIN g.node)
  IN IF N <= 1
       THEN [n \in DOMAIN g.node |-> [num |-> 1, den |-> 1]]
       ELSE [n \in DOMAIN g.node |-> [num |-> Degree(g, n), den |-> N - 1]]

\* analyze_graph; the community partition, computed by the library from the
\* graph alone, is left abstract
analyze_graph ==
  /\ kg_pc = "analyze"
  /\ metrics' = [centrality  |-> degree_centrality(graph),
                 communities |-> "greedy_modularity_communities"]
  /\ kg_pc' = "done"
  /\ UNCHANGED <<kg_entities, kg_relations, graph, kg_given, built>>

InitKGVars ==
  /\ kg_entities = EmptyFn
  /\ kg_relations = <<>>
  /\ graph = EmptyGraph
  /\ metrics = EmptyFn
  /\ kg_pc = "idle"
  /\ kg_given = [entities |-> EmptyFn, relations |-> <<>>, graph |-> EmptyGraph]
  /\ built = <<>>

-----------------------------------------------------------------------------
(* graph_rag.py *)

\* A message is an object of one of the message classes or a plain dict;
\* a dict may lack the 'content' key.  Contents are strings: a query text, or
\* the rendering of a subgraph ("{}" is the empty subgraph).
Queries       == {"", "q1", "q2"}
GraphContents == {"{}", "g1", "g2"}
NoneValue     == [cls |-> "None"]

HumanMessage(c)    == [cls |-> "HumanMessage", type |-> "human", content |-> c]
SubGraphMessage(c) == [cls |-> "SubGraphMessage", type |-> "subgraph", content |-> c]
AIMessage(c)       == [cls |-> "AIMessage", type |-> "ai", content |-> c]

MessageValues ==
  {HumanMessage("q1"), HumanMessage("q2"),
   SubGraphMessage("g1"), SubGraphMessage("g2"),
   AIMessage("earlier answer"),
   [cls |-> "dict", type |-> "user", content |-> "q1"],
   [cls |-> "dict", type |-> "human"],
   [cls |-> "dict", type |-> "subgraph", content |-> "g2"],
   [cls |-> "dict", type |-> "subgraph"]}

\* isinstance(m, SubGraphMessage) or (isinstance(m, dict) and m.get("type") == "subgraph")
IsSubgraph(m) ==
  \/ m.cls = "SubGraphMessage"
  \/ (m.cls = "dict" /\ m.type = "subgraph")

\* isinstance(m, HumanMessage) or (isinstance(m, dict) and m.get("type") in ("human", "user"))
IsHuman(m) ==
  \/ m.cls = "HumanMessage"
  \/ (m.cls = "dict" /\ m.type \in {"human", "user"})

\* m.content if hasattr(m, 'content') else m.get("content", default)
ContentOf(m, default) ==
  IF m.cls # "dict" THEN m.content
  ELSE IF "content" \in DOMAIN m THEN m.content ELSE default

\* a truth test that looks at the payload of the message
TruthyContent(m) == m # NoneValue /\ ContentOf(m, "{}") \notin {"{}", ""}

\* bool(m): None is false; a message object and a dict with a key are true
Truthy(m) == m # NoneValue

\* the loop of lines 29-33: stops at the first match
FirstSubgraph(msgs) ==
  LET hits == {i \in 1..Len(msgs) : IsSubgraph(msgs[i])}
  IN IF hits = {} THEN NoneValue
     ELSE msgs[CHOOSE i \in hits : \A j \in hits : i <= j]

\* next(m for m in reversed(messages) if ..., None)
LastHuman(msgs) ==
  LET hits == {i \in 1..Len(msgs) : IsHuman(msgs[i])}
  IN IF hits = {} THEN NoneValue
     ELSE msgs[CHOOSE i \in hits : \A j \in hits : i >= j]

\* what a set generation backend answers; the backend is external
LLMResponse(query, graph_content) ==
  "llm.generate(" \o query \o ", " \o graph_content \o ")"

\* a generate_response that looks for the query before the graph context
generate_query_first(msgs, llmSet) ==
  LET subgraph       == FirstSubgraph(msgs)
      last_human_msg == LastHuman(msgs)
  IN IF ~Truthy(last_human_msg)
       THEN [message |-> AIMessage("No query found"), calls |-> <<>>]
     ELSE IF ~Truthy(subgraph)
       THEN [message |-> AIMessage("No graph context found"), calls |-> <<>>]
     ELSE LET query         == ContentOf(last_human_msg, "")
              graph_content == ContentOf(subgraph, "{}")
          IN IF llmSet
               THEN [message |-> AIMessage(LLMResponse(query, graph_content)),
                     calls   |-> <<[query |-> query,
                                    graph_context |-> graph_content]>>]
               ELSE [message |-> AIMessage("Mock response for: " \o query),
                     calls   |-> <<>>]

\* generate_response: the message it returns and the backend calls it makes
generate(msgs, llmSet) ==
  LET subgraph == FirstSubgraph(msgs)
  IN IF ~Truthy(subgraph)
       THEN [message |-> AIMessage("No graph context found"), calls |-> <<>>]
     ELSE
       LET graph_content  == ContentOf(subgraph, "{}")
           last_human_msg == LastHuman(msgs)
       IN IF ~Truthy(last_human_msg)
            THEN [message |-> AIMessage("No query found"), calls |-> <<>>]
          ELSE
            LET query == ContentOf(last_human_msg, "")
            IN IF llmSet
                 THEN [message |-> AIMessage(LLMResponse(query, graph_content)),
                       calls   |-> <<[query |-> query,
                                      graph_context |-> graph_content]>>]
                 ELSE [message |-> AIMessage("Mock response for: " \o query),
                       calls   |-> <<>>]

\* the node "retrieve": retrieve_from_graph; the graph appends the message
\* it returns to the list.  What a set kg answers is the choice of the
\* external knowledge graph.
retrieve_from_graph ==
  /\ rag_pc = "retrieve"
  /\ LET last_message == messages[Len(messages)]
     IN \E subgraph \in (IF kg THEN GraphContents ELSE {"{}"}) :
          /\ kg_queries' = IF kg THEN Append(kg_queries, last_message.content)
                                 ELSE kg_queries
          /\ messages' = Append(messages, SubGraphMessage(subgraph))
  /\ rag_trace' = Append(rag_trace, "retrieve")
  /\ rag_pc' = "generate"
  /\ UNCHANGED <<kg, llm, rag_mode, llm_calls, answer>>

\* generate_response, called by the node "generate" of the workflow (the
\* graph appends the returned message) or directly on a message list
generate_response ==
  /\ rag_pc = "generate"
  /\ LET out == generate(messages, llm)
     IN /\ llm_calls' = llm_calls \o out.calls
        /\ IF rag_mode = "workflow"
             THEN /\ messages' = Append(messages, out.message)
                  /\ rag_pc' = "finish"
                  /\ UNCHANGED answer
             ELSE /\ answer' = out.message
                  /\ rag_pc' = "done"
                  /\ UNCHANGED messages
  /\ rag_trace' = Append(rag_trace, "generate")
  /\ UNCHANGED <<kg, llm, rag_mode, kg_queries>>

\* lines 68-73 of run_workflow: the last AIMessage of the result list
run_workflow_return ==
  /\ rag_pc = "finish"
  /\ LET hits == {i \in 1..Len(messages) : messages[i].cls = "AIMessage"}
     IN answer' = IF hits = {} THEN AIMessage("No valid response generated")
                  ELSE messages[CHOOSE i \in hits : \A j \in hits : i >= j]
  /\ rag_pc' = "done"
  /\ UNCHANGED <<kg, llm, messages, rag_mode, rag_trace, kg_queries, llm_calls>>

InitRAGVars ==
  /\ kg = FALSE
  /\ llm = FALSE
  /\ messages = <<>>
  /\ rag_mode = "direct"
  /\ rag_pc = "idle"
  /\ rag_trace = <<>>
  /\ kg_queries = <<>>
  /\ llm_calls = <<>>
  /\ answer = NoneValue

-----------------------------------------------------------------------------
(* Specifications: one per pipeline *)

InitLearn ==
  /\ feedback \in Seqs(FeedbackRecords, MaxFeedback)
  /\ kg_updates = <<>>
  /\ learn_pc = "process"
  /\ InitDocVars /\ InitKGVars /\ InitRAGVars
NextLearn == process_feedback /\ UNCHANGED <<doc_vars, kg_vars, rag_vars>>
SpecLearn == InitLearn /\ [][NextLearn]_vars

\* run_workflow(text): a fresh DocumentState holding the text
InitDoc ==
  /\ raw_text \in Texts
  /\ chunks = <<>>
  /\ entities = EmptyDict
  /\ relations = <<>>
  /\ doc_pc = "chunk"
  /\ InitLearnVars /\ InitKGVars /\ InitRAGVars
NextDoc ==
  /\ \/ chunk_document
     \/ extract_entities
     \/ build_relations
  /\ UNCHANGED <<learn_vars, kg_vars, rag_vars>>
SpecDoc == InitDoc /\ [][NextDoc]_vars

\* KGState(entities=..., relations=...[, graph=...])
InitKG ==
  /\ kg_entities \in EntityMaps
  /\ kg_relations \in Seqs(Triples, MaxRels)
  /\ graph \in GivenGraphs
  /\ metrics = EmptyFn
  /\ kg_pc = "build"
  /\ kg_given = [entities |-> kg_entities, relations |-> kg_relations,
                 graph |-> graph]
  /\ built = <<>>
  /\ InitLearnVars /\ InitDocVars /\ InitRAGVars
NextKG ==
  /\ \/ construct_graph
     \/ analyze_graph
  /\ UNCHANGED <<learn_vars, doc_vars, rag_vars>>
SpecKG == InitKG /\ [][NextKG]_vars

\* run_workflow(query) starts the graph on [HumanMessage(content=query)];
\* generate_response(messages) is also called on a list of its own
InitRAG ==
  /\ kg \in BOOLEAN
  /\ llm \in BOOLEAN
  /\ \/ /\ rag_mode = "workflow"
        /\ \E q \in Queries : messages = <<HumanMessage(q)>>
        /\ rag_pc = "retrieve"
     \/ /\ rag_mode = "direct"
        /\ messages \in Seqs(MessageValues, MaxMsgs)
        /\ rag_pc = "generate"
  /\ rag_trace = <<>>
  /\ kg_queries = <<>>
  /\ llm_calls = <<>>
  /\ answer = NoneValue
  /\ InitLearnVars /\ InitDocVars /\ InitKGVars
NextRAG ==
  /\ \/ retrieve_from_graph
     \/ generate_response
     \/ run_workflow_return
  /\ UNCHANGED <<learn_vars, doc_vars, kg_vars>>
SpecRAG == InitRAG /\ [][NextRAG]_vars
\* the compiled graph runs its nodes to completion without suspension points
FairSpecRAG == SpecRAG /\ WF_vars(NextRAG)

-----------------------------------------------------------------------------
(* Properties *)

\* C1: when process_feedback has returned, the update hook was called once
\* for every record whose flag is False, in list order, and for no record
\* whose flag is True: the call log is the list of the False records.
C1_FeedbackForwarding ==
  learn_pc = "done" =>
    /\ Len(kg_updates)
         = Cardinality({i \in 1..Len(feedback) : feedback[i].correct = "False"})
    /\ kg_updates = SelectSeq(feedback, LAMBDA fb : fb.correct = "False")
    /\ \A j \in 1..Len(kg_updates) : kg_updates[j].correct # "True"
C1_Witness ==
  /\ learn_pc = "done"
  /\ Len(kg_updates) = 2
  /\ \E i \in 1..Len(feedback) : feedback[i].correct = "True"

HasSubgraph(msgs) == \E i \in 1..Len(msgs) : IsSubgraph(msgs[i])
HasHuman(msgs)    == \E i \in 1..Len(msgs) : IsHuman(msgs[i])

\* C2: generate_response called on a list without a subgraph message returns
\* "No graph context found", with or without a human message in the list;
\* on a list with a subgraph message and no human message it returns
\* "No query found"; in both cases the backend is not called.
C2_Sentinels ==
  (rag_mode = "direct" /\ rag_pc = "done") =>
    /\ ~HasSubgraph(messages) =>
         (answer = AIMessage("No graph context found") /\ llm_calls = <<>>)
    /\ (HasSubgraph(messages) /\ ~HasHuman(messages)) =>
         (answer = AIMessage("No query found") /\ llm_calls = <<>>)
C2_Witness ==
  /\ rag_mode = "direct" /\ rag_pc = "done" /\ llm
  /\ ~HasSubgraph(messages) /\ HasHuman(messages)
  /\ answer = AIMessage("No graph context found")

\* C3: a construct_graph call that follows another one on the same state
\* leaves the graph (nodes, node properties, edges, edge labels) exactly as
\* the call before it left it.
C3_RebuildIdempotent ==
  \A i \in 2..Len(built) : built[i] = built[i - 1]
C3_Witness ==
  /\ Len(built) >= 2
  /\ DOMAIN graph.edge # {}
  /\ \E n \in DOMAIN graph.node : graph.node[n] # {}
  /\ kg_given.graph = StaleGraph

\* C4: after construct_graph and analyze_graph, metrics['centrality'] has
\* one entry per node of the graph and every entry lies between 0 and 1,
\* self-loops and single-node graphs included.
C4_CentralityInUnitInterval ==
  kg_pc = "done" =>
    /\ DOMAIN metrics.centrality = DOMAIN graph.node
    /\ \A n \in DOMAIN graph.node :
         /\ metrics.centrality[n].den > 0
         /\ 0 <= metrics.centrality[n].num
         /\ metrics.centrality[n].num <= metrics.centrality[n].den

BothKeywords(cs) ==
  {i \in 1..Len(cs) : Contains(cs[i], "Apple Inc.") /\ Contains(cs[i], "iPhone")}

\* C5: after build_relations, the relations hold the "manufactures" triple
\* once for every chunk in which both "Apple Inc." and "iPhone" occur, and
\* not at all when no chunk holds both.
C5_ManufacturesPerChunk ==
  doc_pc = "done" =>
    Cardinality({j \in 1..Len(relations) : relations[j] = ManufacturesTriple})
      = Cardinality(BothKeywords(chunks))
C5_Witness ==
  /\ doc_pc = "done"
  /\ Cardinality(BothKeywords(chunks)) = 2
  /\ Len(chunks) = 3

NoKeyword(text) ==
  \A kw \in {"Apple Inc.", "Cupertino", "iPhone"} : ~Contains(text, kw)

\* C6: for a text without any of the three keywords (the empty and the
\* whitespace-only text included) the document pipeline ends with at least
\* one chunk, no entities and no relations.
C6_NoKeywords ==
  (doc_pc = "done" /\ NoKeyword(raw_text)) =>
    /\ Len(chunks) >= 1
    /\ DOMAIN entities = {}
    /\ relations = <<>>
C6_Witness ==
  /\ doc_pc = "done"
  /\ raw_text # <<>> /\ Strip(raw_text) = <<>>
  /\ chunks = << <<>> >>

LastSubgraph(msgs) ==
  LET hits == {i \in 1..Len(msgs) : IsSubgraph(msgs[i])}
  IN IF hits = {} THEN NoneValue
     ELSE msgs[CHOOSE i \in hits : \A j \in hits : i >= j]

\* C7: the graph context generate_response forwards to the backend is the
\* content of the last subgraph message of the list, and the query is the
\* content of the last human message.
C7_MostRecentForwarded ==
  (rag_mode = "direct" /\ rag_pc = "done" /\ llm_calls # <<>>) =>
    /\ llm_calls[1].graph_context = ContentOf(LastSubgraph(messages), "{}")
    /\ llm_calls[1].query = ContentOf(LastHuman(messages), "")

Sentinels ==
  {"No graph context found", "No query found", "No valid response generated"}

C8_Answered ==
  (rag_mode = "workflow" /\ rag_pc = "done") =>
    /\ rag_trace = <<"retrieve", "generate">>
    /\ answer = AIMessage(IF llm
                            THEN LLMResponse(messages[1].content,
                                             messages[2].content)
                            ELSE "Mock response for: " \o messages[1].content)
    /\ answer.content \notin Sentinels
\* C8: run_workflow(query) runs retrieve once, then generate once, and
\* terminates; its answer is the generation result for the query (the mock
\* response when no backend is set) and never a sentinel.
C8_RunWorkflow ==
  /\ [](C8_Answered)
  /\ (rag_mode = "workflow") ~> (rag_pc = "done")
C8_Witness ==
  /\ rag_mode = "workflow" /\ rag_pc = "done"
  /\ ~kg /\ ~llm
  /\ answer = AIMessage("Mock response for: q1")

Endpoints(rels) ==
  {rels[i].source : i \in 1..Len(rels)} \cup {rels[i].target : i \in 1..Len(rels)}

\* C9: once construct_graph has returned, the nodes of the graph are the
\* entity names and the end points of the relations, with the properties
\* the entity mapping gives them; every edge joins the end points of a
\* relation of the list; and the entities and relations of the state are
\* the ones it was constructed with.
C9_BuiltFromScratch ==
  Len(built) >= 1 =>
    /\ DOMAIN graph.node = (DOMAIN kg_entities) \cup Endpoints(kg_relations)
    /\ \A n \in DOMAIN graph.node :
         graph.node[n] = IF n \in DOMAIN kg_entities THEN kg_entities[n] ELSE {}
    /\ \A e \in DOMAIN graph.edge :
         \E i \in 1..Len(kg_relations) :
           e = {kg_relations[i].source, kg_relations[i].target}
    /\ kg_entities = kg_given.entities
    /\ kg_relations = kg_given.relations
C9_Witness ==
  /\ Len(built) >= 1
  /\ kg_given.graph = StaleGraph
  /\ "iPhone" \in DOMAIN graph.node
  /\ DOMAIN graph.edge # {}

\* C10: once construct_graph has returned, every triple of the relation
\* list has an edge between its source and its target whose "relation"
\* attribute is the label of that triple ("related" for a triple without a
\* label), also when two triples join the same pair of entities.
C10_EveryTripleLabelled ==
  Len(built) >= 1 =>
    \A i \in 1..Len(kg_relations) :
      LET e == {kg_relations[i].source, kg_relations[i].target}
      IN /\ e \in DOMAIN graph.edge
         /\ graph.edge[e] = RelationOf(kg_relations[i])

=============================================================================
